---- MODULE Spec2Model ----
(***************************************************************************)
(* The SBF-to-RINEX streaming service of src/sbf2rinex_stream.py: main()   *)
(* connects to the receiver, appends what it reads to the master SBF log,  *)
(* and after each capture interval hands the whole log to the external     *)
(* converter sbf2rin, whose output path is the live RINEX file.            *)
(*                                                                         *)
(* Bytes are abstract: the k-th byte any recv() returned is the number k,  *)
(* bytes already in the log when the service starts are 0.  The code never *)
(* looks into a chunk (only at its emptiness and its length), so this      *)
(* loses nothing and makes a dropped, doubled or reordered byte visible.   *)
(*                                                                         *)
(* DaySpec is the same service in a run that goes over midnight UTC.       *)
(* DlSpec is the bulk downloader of src/rinex_download.py, a program of    *)
(* its own: its loop over years, days and file extensions.                 *)
(***************************************************************************)
EXTENDS Integers, Sequences, FiniteSets, TLC

\* ---- bounds of the model ------------------------------------------------
\* Bytes all recv() calls of one run return, in total.
MaxBytes == 3
\* Longest chunk one recv() returns (stands for the 4096 of line 105).
MaxChunkLen == 2
\* The bulk downloader: years 1..EndYear, days 1..DaysInYear (stands for the
\* 365 or 366 of the source), bodies of at most MaxBodyChunks chunks.
EndYear == 2
DaysInYear == 2
MaxBodyChunks == 2

VARIABLES
    pc,             \* where main() stands
    sock,           \* the socket of line 96 is open
    sbf_file,       \* the file object of line 101 is open
    fbuf,           \* bytes the file object holds that are not on storage yet
    master_log,     \* content of the master SBF log on storage
    data,           \* the chunk of line 105 not yet handed to write()
    bytes_received, \* line 103 / 110
    expired,        \* time.time() - start_time >= PROCESS_INTERVAL_SECONDS
    conv,           \* the sbf2rin child: "idle", "start", "running", "writing"
    convInput,      \* the log content the running sbf2rin was given
    live_rinex,     \* content of the live RINEX path, as any reader sees it
    exitCode,       \* exit status of the process, -1 while it runs
    \* ---- history: what happened, never read by an action's guard ----
    initLog,        \* the log's content when the service started
    received,       \* every byte recv() returned, in receipt order
    ioFailed,       \* a write, flush or close of the log has raised
    stopSignal,     \* a KeyboardInterrupt reached __main__
    cycleOut,       \* outcome reports printed in the latest cycle
    pubBefore,      \* live_rinex when the latest cycle began
    sinceBoundary,  \* bytes written to the log file since the latest cycle boundary
    unconverted,    \* a read error ended an interval with bytes, no cycle since
    failRun,        \* consecutive connection / conversion failures: 0, 1, 2 or more
    sleep_left,     \* seconds the time.sleep(10) of line 122 / 125 still has to run
    owed,           \* seconds of backoff not yet slept since the latest connection failure
    signalled,      \* a KeyboardInterrupt was raised in main()
    peerClosed,     \* recv() returned b'' in the latest capture interval
    baseLen,        \* length of the log on storage when the latest interval opened it
    reported,       \* the tally and a cycle outcome were printed for the latest capture interval
    dayChanged,     \* the UTC calendar day is no longer the day the service started on
    master_sbf_filename, \* line 85: the log's name, computed before the loop
    path_uses,      \* <<name, day>> of every use: the name open() or -f was given, the day then
    \* ---- src/rinex_download.py, download_cddis_rinex_v2_gps_nav_bulk ----
    dpc,            \* where the download function stands
    year,           \* line 32
    day_of_year,    \* line 36
    ext,            \* line 59: index into possible_extensions
    downloaded,     \* line 57 / 87
    body_len,       \* chunks the body of the open response has
    downloaded_size,\* line 79 / 85: chunks written to the local file of this attempt
    f_open,         \* the local file of line 81 is open
    \* ---- history of the download ----
    gz_outcome,     \* how the .gz attempt of the current day ended, "none" before
    z_requested,    \* the .Z request of the current day was made
    auth_seen,      \* a response was found redirected to the Earthdata Login host
    nreq            \* session.get calls made so far

vars == <<pc, sock, sbf_file, fbuf, master_log, data, bytes_received, expired,
          conv, convInput, live_rinex, exitCode, initLog, received, ioFailed,
          stopSignal, cycleOut, pubBefore, sinceBoundary, unconverted, failRun,
          sleep_left, owed, signalled, peerClosed, baseLen, reported,
          dayChanged, master_sbf_filename, path_uses,
          dpc, year, day_of_year, ext, downloaded, body_len, downloaded_size,
          f_open, gz_outcome, z_requested, auth_seen, nreq>>

\* The state of the streaming service, and the state of the bulk downloader.
svars == <<pc, sock, sbf_file, fbuf, master_log, data, bytes_received, expired,
           conv, convInput, live_rinex, exitCode, initLog, received, ioFailed,
           stopSignal, cycleOut, pubBefore, sinceBoundary, unconverted, failRun,
           sleep_left, owed, signalled, peerClosed, baseLen, reported,
           dayChanged, master_sbf_filename, path_uses>>

dl == <<dpc, year, day_of_year, ext, downloaded, body_len, downloaded_size,
        f_open, gz_outcome, z_requested, auth_seen, nreq>>

hist == <<initLog, received, ioFailed, stopSignal, cycleOut, pubBefore,
          sinceBoundary, unconverted, failRun>>

\* ---- helpers ------------------------------------------------------------
IsPrefix(s, t) == Len(s) <= Len(t) /\ SubSeq(t, 1, Len(s)) = s

Take(s, k) == SubSeq(s, 1, k)

Drop(s, k) == SubSeq(s, k + 1, Len(s))

\* The chunk of n bytes received after r bytes.
Chunk(r, n) == [i \in 1..n |-> r + i]

InitLogs == {<< >>, <<0>>}

Absent == [kind |-> "absent", src |-> << >>]

\* sbf2rin is a black box and deterministic: its complete output is a function
\* of the log it read; a partial output is a file it has opened and not finished.
Complete(input) == [kind |-> "complete", src |-> input]

Partial(input) == [kind |-> "partial", src |-> input]

\* failRun counts 0, 1, "2 or more".
BumpFail(n) == IF n < 2 THEN n + 1 ELSE n

\* ---- the semantics of the calls main() makes ----------------------------
\* open(master_sbf_filepath, 'ab'): the content on storage is kept.
OpenTruncating(content) == << >>

OpenedContent(content) == content

\* A write in append mode lands at the end of the file.
AppendedAtStart(content, bytes) == bytes \o content

AppendedContent(content, bytes) == content \o bytes

\* sbf_file.write(data) on the buffered writer: data is buffered (0 bytes reach
\* storage), or the buffer is flushed first, or buffer and data are written through.
FlushPoints(buf, d) == {0, Len(buf), Len(buf) + Len(d)}

\* time.sleep(10), lines 122 and 125.
SleepSeconds == 10

\* datetime.utcnow() at day granularity.
UtcDay == IF dayChanged THEN "later" ELSE "start"

\* Line 85: the log's name is made of the day, strftime('%Y%m%d').
LogName(day) == <<"master_log_", day, ".sbf">>

\* Lines 101 and 116: the name open() and the converter are given.
LogKeyRederived == LogName(UtcDay)

LogKeyUsed == master_sbf_filename

\* Where the `except` clauses of lines 120-125 lead: print, sleep, loop again.
HandlerExits == "done"

HandlerSkipsSleep == "connect"

HandlerNext == "sleep"

\* ---- Init: the state when main() reaches line 93 ------------------------
Init ==
    /\ pc = "connect"
    /\ sock = FALSE
    /\ sbf_file = FALSE
    /\ fbuf = << >>
    /\ initLog \in InitLogs
    /\ master_log = initLog
    /\ data = << >>
    /\ bytes_received = 0
    /\ expired = FALSE
    /\ conv = "idle"
    /\ convInput = << >>
    /\ live_rinex \in {Absent, Complete(<<0>>)}
    /\ exitCode = -1
    /\ received = << >>
    /\ ioFailed = FALSE
    /\ stopSignal = FALSE
    /\ cycleOut = << >>
    /\ pubBefore = live_rinex
    /\ sinceBoundary = 0
    /\ unconverted = FALSE
    /\ failRun = 0
    /\ sleep_left = 0
    /\ owed = 0
    /\ signalled = FALSE
    /\ peerClosed = FALSE
    /\ baseLen = Len(initLog)
    /\ reported = TRUE
    /\ dayChanged = FALSE
    /\ master_sbf_filename = LogName(UtcDay)
    /\ path_uses = {}
    /\ dpc = "get"
    /\ year = 1
    /\ day_of_year = 1
    /\ ext = 1
    /\ downloaded = FALSE
    /\ body_len = 0
    /\ downloaded_size = 0
    /\ f_open = FALSE
    /\ gz_outcome = "none"
    /\ z_requested = FALSE
    /\ auth_seen = FALSE
    /\ nreq = 0

\* What leaving the two `with` blocks does to the file object: close() flushes
\* the buffer and closes the file; when the flush raises, the file is closed all
\* the same and the buffered bytes are gone.
ClosedLogRewritten(flushOk) == fbuf

ClosedLogUnflushed(flushOk) == master_log

ClosedLog(flushOk) == IF flushOk THEN AppendedContent(master_log, fbuf) ELSE master_log

\* An exception leaves the `with` blocks (file, then socket) and is caught at
\* line 120 or 123.
Raise(flushOk) ==
    /\ master_log' = ClosedLog(flushOk)
    /\ fbuf' = << >>
    /\ sbf_file' = FALSE
    /\ sock' = FALSE
    /\ pc' = HandlerNext
    /\ sleep_left' = SleepSeconds
    /\ failRun' = BumpFail(failRun)

\* ---- the actions --------------------------------------------------------
\* Lines 95-98: the connection attempt.
Connect ==
    /\ pc = "connect"
    /\ \E ok \in BOOLEAN :
         IF ok
         THEN /\ sock' = TRUE
              /\ pc' = "open"
              /\ failRun' = failRun
              /\ UNCHANGED <<sleep_left, owed>>
         ELSE /\ sock' = FALSE
              /\ pc' = HandlerNext
              /\ sleep_left' = SleepSeconds
              /\ owed' = SleepSeconds
              /\ failRun' = BumpFail(failRun)
    /\ UNCHANGED <<sbf_file, fbuf, master_log, data, bytes_received, expired,
                   conv, convInput, live_rinex, exitCode>>
    /\ UNCHANGED <<initLog, received, ioFailed, stopSignal, cycleOut,
                   pubBefore, sinceBoundary, unconverted>>
    /\ UNCHANGED <<signalled, peerClosed, baseLen, reported>>
    /\ UNCHANGED <<dayChanged, master_sbf_filename, path_uses>>
    /\ UNCHANGED dl

OpenLogKeepsTally ==
    /\ pc = "open"
    /\ \E ok \in BOOLEAN :
         IF ok
         THEN /\ sbf_file' = TRUE
              /\ master_log' = OpenedContent(master_log)
              /\ fbuf' = << >>
              /\ expired' = FALSE
              /\ bytes_received' = bytes_received
              /\ sock' = sock
              /\ pc' = "loop"
              /\ failRun' = failRun
              /\ sleep_left' = sleep_left
              /\ peerClosed' = FALSE
              /\ baseLen' = Len(master_log)
              /\ reported' = FALSE
         ELSE /\ Raise(TRUE)
              /\ UNCHANGED <<expired, bytes_received, peerClosed, baseLen,
                             reported>>
    /\ owed' = owed
    /\ UNCHANGED <<data, conv, convInput, live_rinex, exitCode>>
    /\ UNCHANGED <<initLog, received, ioFailed, stopSignal, cycleOut,
                   pubBefore, sinceBoundary, unconverted>>
    /\ UNCHANGED <<signalled>>
    /\ UNCHANGED <<dayChanged, master_sbf_filename>>
    /\ path_uses' = path_uses \cup {<<LogKeyUsed, UtcDay>>}
    /\ UNCHANGED dl

\* Lines 101-103: open the log for appending, start the interval.
OpenLog ==
    /\ pc = "open"
    /\ \E ok \in BOOLEAN :
         IF ok
         THEN /\ sbf_file' = TRUE
              /\ master_log' = OpenedContent(master_log)
              /\ fbuf' = << >>
              /\ expired' = FALSE
              /\ bytes_received' = 0
              /\ sock' = sock
              /\ pc' = "loop"
              /\ failRun' = failRun
              /\ sleep_left' = sleep_left
              /\ peerClosed' = FALSE
              /\ baseLen' = Len(master_log)
              /\ reported' = FALSE
         ELSE /\ Raise(TRUE)
              /\ UNCHANGED <<expired, bytes_received, peerClosed, baseLen,
                             reported>>
    /\ owed' = owed
    /\ UNCHANGED <<data, conv, convInput, live_rinex, exitCode>>
    /\ UNCHANGED <<initLog, received, ioFailed, stopSignal, cycleOut,
                   pubBefore, sinceBoundary, unconverted>>
    /\ UNCHANGED <<signalled>>
    /\ UNCHANGED <<dayChanged, master_sbf_filename>>
    /\ path_uses' = path_uses \cup {<<LogKeyUsed, UtcDay>>}
    /\ UNCHANGED dl

\* Time passes: the interval of PROCESS_INTERVAL_SECONDS is over.
Tick ==
    /\ pc \in {"loop", "recv", "write"}
    /\ ~expired
    /\ expired' = TRUE
    /\ UNCHANGED <<pc, sock, sbf_file, fbuf, master_log, data, bytes_received,
                   conv, convInput, live_rinex, exitCode>>
    /\ UNCHANGED hist
    /\ UNCHANGED <<sleep_left, owed, signalled, peerClosed, baseLen, reported>>
    /\ UNCHANGED <<dayChanged, master_sbf_filename, path_uses>>
    /\ UNCHANGED dl

\* Line 104: the loop test.
LoopCheck ==
    /\ pc = "loop"
    /\ pc' = IF expired THEN "close" ELSE "recv"
    /\ UNCHANGED <<sock, sbf_file, fbuf, master_log, data, bytes_received,
                   expired, conv, convInput, live_rinex, exitCode>>
    /\ UNCHANGED hist
    /\ UNCHANGED <<sleep_left, owed, signalled, peerClosed, baseLen, reported>>
    /\ UNCHANGED <<dayChanged, master_sbf_filename, path_uses>>
    /\ UNCHANGED dl

\* Line 105: recv() returns a chunk.
RecvData ==
    /\ pc = "recv"
    /\ \E n \in 1..MaxChunkLen :
         /\ Len(received) + n <= MaxBytes
         /\ data' = Chunk(Len(received), n)
         /\ received' = received \o Chunk(Len(received), n)
    /\ pc' = "write"
    /\ UNCHANGED <<sock, sbf_file, fbuf, master_log, bytes_received, expired,
                   conv, convInput, live_rinex, exitCode>>
    /\ UNCHANGED <<initLog, ioFailed, stopSignal, cycleOut, pubBefore,
                   sinceBoundary, unconverted, failRun>>
    /\ UNCHANGED <<sleep_left, owed, signalled, peerClosed, baseLen, reported>>
    /\ UNCHANGED <<dayChanged, master_sbf_filename, path_uses>>
    /\ UNCHANGED dl

RecvEOFExits ==
    /\ pc = "recv"
    /\ pc' = "done"
    /\ UNCHANGED <<sock, sbf_file, fbuf, master_log, data, bytes_received,
                   expired, conv, convInput, live_rinex, exitCode>>
    /\ UNCHANGED hist
    /\ UNCHANGED <<sleep_left, owed, signalled>>
    /\ peerClosed' = TRUE
    /\ UNCHANGED <<baseLen, reported>>
    /\ UNCHANGED <<dayChanged, master_sbf_filename, path_uses>>
    /\ UNCHANGED dl

\* Lines 105-108: recv() returns b'', the receiver closed the connection.
RecvEOF ==
    /\ pc = "recv"
    /\ pc' = "close"
    /\ UNCHANGED <<sock, sbf_file, fbuf, master_log, data, bytes_received,
                   expired, conv, convInput, live_rinex, exitCode>>
    /\ UNCHANGED hist
    /\ UNCHANGED <<sleep_left, owed, signalled>>
    /\ peerClosed' = TRUE
    /\ UNCHANGED <<baseLen, reported>>
    /\ UNCHANGED <<dayChanged, master_sbf_filename, path_uses>>
    /\ UNCHANGED dl

\* Line 105 raises socket.error: out of both `with` blocks to line 120.
RecvError ==
    /\ pc = "recv"
    /\ \E flushOk \in BOOLEAN :
         /\ Raise(flushOk)
         /\ ioFailed' = (ioFailed \/ (~flushOk /\ fbuf # << >>))
    /\ unconverted' = (unconverted \/ bytes_received > 0)
    /\ UNCHANGED <<data, bytes_received, expired, conv, convInput, live_rinex,
                   exitCode>>
    /\ UNCHANGED <<initLog, received, stopSignal, cycleOut, pubBefore,
                   sinceBoundary>>
    /\ owed' = SleepSeconds
    /\ UNCHANGED <<signalled, peerClosed, baseLen, reported>>
    /\ UNCHANGED <<dayChanged, master_sbf_filename, path_uses>>
    /\ UNCHANGED dl

\* Lines 109-110: write the chunk, then count it.
Write ==
    /\ pc = "write"
    /\ \/ \E k \in FlushPoints(fbuf, data) :
            /\ master_log' = AppendedContent(master_log, Take(fbuf \o data, k))
            /\ fbuf' = Drop(fbuf \o data, k)
            /\ bytes_received' = bytes_received + Len(data)
            /\ sinceBoundary' = sinceBoundary + Len(data)
            /\ data' = << >>
            /\ pc' = "loop"
            /\ UNCHANGED <<sock, sbf_file, ioFailed, failRun, sleep_left>>
       \/ \E flushOk \in BOOLEAN :
            \* write() raises OSError (a subclass of which socket.error is the
            \* alias): the chunk is not in the buffer; close() flushes the rest.
            /\ Raise(flushOk)
            /\ ioFailed' = TRUE
            /\ data' = << >>
            /\ UNCHANGED <<bytes_received, sinceBoundary>>
    /\ UNCHANGED <<expired, conv, convInput, live_rinex, exitCode>>
    /\ UNCHANGED <<initLog, received, stopSignal, cycleOut, pubBefore,
                   unconverted, owed>>
    /\ UNCHANGED <<signalled, peerClosed, baseLen, reported>>
    /\ UNCHANGED <<dayChanged, master_sbf_filename, path_uses>>
    /\ UNCHANGED dl

\* Lines 110-112: the `with` blocks end: the file is flushed and closed, the
\* tally is printed, the socket is closed.
CloseLog ==
    /\ pc = "close"
    /\ \/ /\ master_log' = ClosedLog(TRUE)
          /\ fbuf' = << >>
          /\ sbf_file' = FALSE
          /\ sock' = FALSE
          /\ pc' = "decide"
          /\ UNCHANGED <<ioFailed, failRun, sleep_left>>
       \/ /\ fbuf # << >>
          /\ Raise(FALSE)
          /\ ioFailed' = TRUE
    /\ owed' = owed
    /\ UNCHANGED <<data, bytes_received, expired, conv, convInput, live_rinex,
                   exitCode>>
    /\ UNCHANGED <<initLog, received, stopSignal, cycleOut, pubBefore,
                   sinceBoundary, unconverted>>
    /\ UNCHANGED <<signalled, peerClosed, baseLen, reported>>
    /\ UNCHANGED <<dayChanged, master_sbf_filename, path_uses>>
    /\ UNCHANGED dl

DecideInsideWith ==
    /\ pc = "close"
    /\ IF bytes_received > 0
       THEN /\ pc' = "convert"
            /\ conv' = "start"
            /\ cycleOut' = << >>
            /\ unconverted' = FALSE
            /\ reported' = reported
       ELSE /\ pc' = "connect"
            /\ conv' = conv
            /\ cycleOut' = <<"skip">>
            /\ unconverted' = unconverted
            /\ reported' = TRUE
    /\ pubBefore' = live_rinex
    /\ sinceBoundary' = 0
    /\ UNCHANGED <<sock, sbf_file, fbuf, master_log, data, bytes_received,
                   expired, convInput, live_rinex, exitCode>>
    /\ UNCHANGED <<initLog, received, ioFailed, stopSignal,
                   failRun>>
    /\ UNCHANGED <<sleep_left, owed, signalled, peerClosed, baseLen>>
    /\ UNCHANGED <<dayChanged, master_sbf_filename, path_uses>>
    /\ UNCHANGED dl

\* Lines 115-118: the cycle boundary.
Decide ==
    /\ pc = "decide"
    /\ IF bytes_received > 0
       THEN /\ pc' = "convert"
            /\ conv' = "start"
            /\ cycleOut' = << >>
            /\ unconverted' = FALSE
            /\ reported' = reported
       ELSE /\ pc' = "connect"
            /\ conv' = conv
            /\ cycleOut' = <<"skip">>
            /\ unconverted' = unconverted
            /\ reported' = TRUE
    /\ pubBefore' = live_rinex
    /\ sinceBoundary' = 0
    /\ UNCHANGED <<sock, sbf_file, fbuf, master_log, data, bytes_received,
                   expired, convInput, live_rinex, exitCode>>
    /\ UNCHANGED <<initLog, received, ioFailed, stopSignal,
                   failRun>>
    /\ UNCHANGED <<sleep_left, owed, signalled, peerClosed, baseLen>>
    /\ UNCHANGED <<dayChanged, master_sbf_filename, path_uses>>
    /\ UNCHANGED dl

ConvNotFoundBacksOff ==
    /\ pc = "convert"
    /\ conv = "start"
    /\ conv' = "idle"
    /\ pc' = "sleep"
    /\ cycleOut' = Append(cycleOut, "notfound")
    /\ UNCHANGED <<sock, sbf_file, fbuf, master_log, data, bytes_received,
                   expired, convInput, live_rinex, exitCode>>
    /\ UNCHANGED <<initLog, received, ioFailed, stopSignal, pubBefore,
                   sinceBoundary, unconverted, failRun>>
    /\ UNCHANGED <<sleep_left, owed, signalled, peerClosed, baseLen>>
    /\ reported' = TRUE
    /\ UNCHANGED <<dayChanged, master_sbf_filename, path_uses>>
    /\ UNCHANGED dl

\* Lines 47, 59-61: subprocess.run raises FileNotFoundError; convert returns
\* False, which main() does not look at.
ConvNotFound ==
    /\ pc = "convert"
    /\ conv = "start"
    /\ conv' = "idle"
    /\ pc' = "connect"
    /\ cycleOut' = Append(cycleOut, "notfound")
    /\ UNCHANGED <<sock, sbf_file, fbuf, master_log, data, bytes_received,
                   expired, convInput, live_rinex, exitCode>>
    /\ UNCHANGED <<initLog, received, ioFailed, stopSignal, pubBefore,
                   sinceBoundary, unconverted, failRun>>
    /\ UNCHANGED <<sleep_left, owed, signalled, peerClosed, baseLen>>
    /\ reported' = TRUE
    /\ UNCHANGED <<dayChanged, master_sbf_filename, path_uses>>
    /\ UNCHANGED dl

ConvSpawnDelta ==
    /\ pc = "convert"
    /\ conv = "start"
    /\ conv' = "running"
    /\ convInput' = Drop(master_log, baseLen)
    /\ UNCHANGED <<pc, sock, sbf_file, fbuf, master_log, data, bytes_received,
                   expired, live_rinex, exitCode>>
    /\ UNCHANGED hist
    /\ UNCHANGED <<sleep_left, owed, signalled, peerClosed, baseLen, reported>>
    /\ UNCHANGED <<dayChanged, master_sbf_filename>>
    /\ path_uses' = path_uses \cup {<<LogKeyUsed, UtcDay>>}
    /\ UNCHANGED dl

\* Line 47: the child runs, with -f the master log and -O the live RINEX path.
ConvSpawn ==
    /\ pc = "convert"
    /\ conv = "start"
    /\ conv' = "running"
    /\ convInput' = master_log
    /\ UNCHANGED <<pc, sock, sbf_file, fbuf, master_log, data, bytes_received,
                   expired, live_rinex, exitCode>>
    /\ UNCHANGED hist
    /\ UNCHANGED <<sleep_left, owed, signalled, peerClosed, baseLen, reported>>
    /\ UNCHANGED <<dayChanged, master_sbf_filename>>
    /\ path_uses' = path_uses \cup {<<LogKeyUsed, UtcDay>>}
    /\ UNCHANGED dl

\* The child opens its output, the path of lines 43 and 87, and starts writing.
ConvOpenOutput ==
    /\ pc = "convert"
    /\ conv = "running"
    /\ conv' = "writing"
    /\ live_rinex' = Partial(convInput)
    /\ UNCHANGED <<pc, sock, sbf_file, fbuf, master_log, data, bytes_received,
                   expired, convInput, exitCode>>
    /\ UNCHANGED hist
    /\ UNCHANGED <<sleep_left, owed, signalled, peerClosed, baseLen, reported>>
    /\ UNCHANGED <<dayChanged, master_sbf_filename, path_uses>>
    /\ UNCHANGED dl

\* Lines 47-54, 70: the child wrote its output and exited 0.
ConvSuccess ==
    /\ pc = "convert"
    /\ conv = "writing"
    /\ conv' = "idle"
    /\ live_rinex' = Complete(convInput)
    /\ pc' = "connect"
    /\ cycleOut' = Append(cycleOut, "success")
    /\ failRun' = 0
    /\ convInput' = << >>
    /\ UNCHANGED <<sock, sbf_file, fbuf, master_log, data, bytes_received,
                   expired, exitCode>>
    /\ UNCHANGED <<initLog, received, ioFailed, stopSignal, pubBefore,
                   sinceBoundary, unconverted>>
    /\ UNCHANGED <<sleep_left, owed, signalled, peerClosed, baseLen>>
    /\ reported' = TRUE
    /\ UNCHANGED <<dayChanged, master_sbf_filename, path_uses>>
    /\ UNCHANGED dl

ConvFailBacksOff ==
    /\ pc = "convert"
    /\ conv \in {"running", "writing"}
    /\ \E kind \in {"nonzero", "timeout"} :
         cycleOut' = Append(cycleOut, kind)
    /\ conv' = "idle"
    /\ pc' = "sleep"
    /\ failRun' = BumpFail(failRun)
    /\ convInput' = << >>
    /\ UNCHANGED <<sock, sbf_file, fbuf, master_log, data, bytes_received,
                   expired, live_rinex, exitCode>>
    /\ UNCHANGED <<initLog, received, ioFailed, stopSignal, pubBefore,
                   sinceBoundary, unconverted>>
    /\ UNCHANGED <<sleep_left, owed, signalled, peerClosed, baseLen>>
    /\ reported' = TRUE
    /\ UNCHANGED <<dayChanged, master_sbf_filename, path_uses>>
    /\ UNCHANGED dl

\* Lines 62-68: the child exited non-zero, or was killed after the 30 s timeout,
\* before or after it opened its output.
ConvFail ==
    /\ pc = "convert"
    /\ conv \in {"running", "writing"}
    /\ \E kind \in {"nonzero", "timeout"} :
         cycleOut' = Append(cycleOut, kind)
    /\ conv' = "idle"
    /\ pc' = "connect"
    /\ failRun' = BumpFail(failRun)
    /\ convInput' = << >>
    /\ UNCHANGED <<sock, sbf_file, fbuf, master_log, data, bytes_received,
                   expired, live_rinex, exitCode>>
    /\ UNCHANGED <<initLog, received, ioFailed, stopSignal, pubBefore,
                   sinceBoundary, unconverted>>
    /\ UNCHANGED <<sleep_left, owed, signalled, peerClosed, baseLen>>
    /\ reported' = TRUE
    /\ UNCHANGED <<dayChanged, master_sbf_filename, path_uses>>
    /\ UNCHANGED dl

\* Lines 122 and 125: the time time.sleep(10) was asked for passes; the call
\* does not return before.
SleepTick ==
    /\ pc = "sleep"
    /\ sleep_left > 0
    /\ sleep_left' = 0
    /\ owed' = IF owed > sleep_left THEN owed - sleep_left ELSE 0
    /\ UNCHANGED <<pc, sock, sbf_file, fbuf, master_log, data, bytes_received,
                   expired, conv, convInput, live_rinex, exitCode>>
    /\ UNCHANGED hist
    /\ UNCHANGED <<signalled, peerClosed, baseLen, reported>>
    /\ UNCHANGED <<dayChanged, master_sbf_filename, path_uses>>
    /\ UNCHANGED dl

\* Lines 122 and 125: time.sleep(10) returns, the loop of line 93 goes on.
Backoff ==
    /\ pc = "sleep"
    /\ sleep_left = 0
    /\ pc' = "connect"
    /\ UNCHANGED <<sock, sbf_file, fbuf, master_log, data, bytes_received,
                   expired, conv, convInput, live_rinex, exitCode>>
    /\ UNCHANGED hist
    /\ UNCHANGED <<sleep_left, owed, signalled, peerClosed, baseLen, reported>>
    /\ UNCHANGED <<dayChanged, master_sbf_filename, path_uses>>
    /\ UNCHANGED dl

\* Midnight UTC passes while the service runs.
DayRoll ==
    /\ pc # "done"
    /\ ~dayChanged
    /\ dayChanged' = TRUE
    /\ UNCHANGED <<pc, sock, sbf_file, fbuf, master_log, data, bytes_received,
                   expired, conv, convInput, live_rinex, exitCode>>
    /\ UNCHANGED hist
    /\ UNCHANGED <<sleep_left, owed, signalled, peerClosed, baseLen, reported,
                   master_sbf_filename, path_uses>>
    /\ UNCHANGED dl

\* Lines 127-131: KeyboardInterrupt, at any point of main().  It leaves the
\* `with` blocks; neither `except` clause of main() catches it.  When the flush
\* of close() raises on the way out, that OSError replaces the interrupt and
\* line 120 catches it.
Interrupt ==
    /\ pc \notin {"done"}
    /\ \E flushOk \in BOOLEAN :
         /\ (flushOk \/ fbuf # << >>)
         /\ master_log' = ClosedLog(flushOk)
         /\ ioFailed' = (ioFailed \/ ~flushOk)
         /\ IF flushOk
            THEN /\ pc' = "done"
                 /\ exitCode' = 0
                 /\ stopSignal' = TRUE
                 /\ failRun' = failRun
                 /\ sleep_left' = 0
                 /\ owed' = 0
            ELSE /\ pc' = HandlerNext
                 /\ exitCode' = exitCode
                 /\ stopSignal' = stopSignal
                 /\ failRun' = BumpFail(failRun)
                 /\ sleep_left' = SleepSeconds
                 /\ owed' = owed
    /\ fbuf' = << >>
    /\ sbf_file' = FALSE
    /\ sock' = FALSE
    /\ conv' = "idle"
    /\ convInput' = << >>
    /\ UNCHANGED <<data, bytes_received, expired, live_rinex>>
    /\ UNCHANGED <<initLog, received, cycleOut, pubBefore,
                   sinceBoundary, unconverted>>
    /\ signalled' = TRUE
    /\ UNCHANGED <<peerClosed, baseLen, reported>>
    /\ UNCHANGED <<dayChanged, master_sbf_filename, path_uses>>
    /\ UNCHANGED dl

Next ==
    \/ Connect
    \/ OpenLog
    \/ Tick
    \/ LoopCheck
    \/ RecvData
    \/ RecvEOF
    \/ RecvError
    \/ Write
    \/ CloseLog
    \/ Decide
    \/ ConvNotFound
    \/ ConvSpawn
    \/ ConvOpenOutput
    \/ ConvSuccess
    \/ ConvFail
    \/ SleepTick
    \/ Backoff
    \/ Interrupt

Spec == Init /\ [][Next]_vars

\* The steps that need nobody but the service itself: every call main() makes
\* returns, except recv() (no timeout is set on the socket: it returns when the
\* receiver sends, closes or fails), and nobody has to send an interrupt.  The
\* clock runs.
OwnStep ==
    \/ Connect
    \/ OpenLog
    \/ Tick
    \/ LoopCheck
    \/ Write
    \/ CloseLog
    \/ Decide
    \/ ConvNotFound
    \/ ConvSpawn
    \/ ConvOpenOutput
    \/ ConvSuccess
    \/ ConvFail
    \/ SleepTick
    \/ Backoff

Fairness ==
    /\ WF_vars(Connect)
    /\ WF_vars(OpenLog)
    /\ WF_vars(Tick)
    /\ WF_vars(LoopCheck)
    /\ WF_vars(Write)
    /\ WF_vars(CloseLog)
    /\ WF_vars(Decide)
    /\ WF_vars(ConvNotFound \/ ConvSpawn)
    /\ WF_vars(ConvOpenOutput \/ ConvSuccess \/ ConvFail)
    /\ WF_vars(SleepTick)
    /\ WF_vars(Backoff)

FairSpec == Init /\ [][Next]_vars /\ Fairness

\* A run of the service that goes over midnight UTC.
DayNext ==
    \/ Next
    \/ DayRoll

DaySpec == Init /\ [][DayNext]_vars

\* ---- the bulk downloader, src/rinex_download.py ------------------------
\* Line 56.
possible_extensions == <<".gz", ".Z">>

\* The attempt for the current extension is over without a download: the
\* `for ext` loop of line 59 takes the next extension, or ends (line 99).
NextExt ==
    IF ext < Len(possible_extensions)
    THEN ext' = ext + 1 /\ dpc' = "get"
    ELSE ext' = ext /\ dpc' = "day_end"

\* Line 67: one more session.get, for the current extension.
Requested ==
    /\ nreq' = nreq + 1
    /\ z_requested' = (z_requested \/ possible_extensions[ext] = ".Z")

\* How the attempt for ".gz" ended.
Outcome(o) ==
    gz_outcome' = IF possible_extensions[ext] = ".gz" THEN o ELSE gz_outcome

\* Lines 67, 94-95: session.get raises a RequestException.
GetRaises ==
    /\ dpc = "get"
    /\ Requested
    /\ Outcome("exception")
    /\ NextExt
    /\ UNCHANGED <<year, day_of_year, downloaded, body_len, downloaded_size,
                   f_open, auth_seen>>
    /\ UNCHANGED svars

Get404GivesUp ==
    /\ dpc = "get"
    /\ Requested
    /\ Outcome("404")
    /\ ext' = ext
    /\ dpc' = "day_end"
    /\ UNCHANGED <<year, day_of_year, downloaded, body_len, downloaded_size,
                   f_open, auth_seen>>
    /\ UNCHANGED svars

\* Lines 89-91: status 404.
Get404 ==
    /\ dpc = "get"
    /\ Requested
    /\ Outcome("404")
    /\ NextExt
    /\ UNCHANGED <<year, day_of_year, downloaded, body_len, downloaded_size,
                   f_open, auth_seen>>
    /\ UNCHANGED svars

\* Lines 92-95: any other status: raise_for_status() raises HTTPError, which
\* line 94 catches, or returns; the loop goes on either way.
GetOtherStatus ==
    /\ dpc = "get"
    /\ Requested
    /\ Outcome("http_error")
    /\ NextExt
    /\ UNCHANGED <<year, day_of_year, downloaded, body_len, downloaded_size,
                   f_open, auth_seen>>
    /\ UNCHANGED svars

\* Lines 69-76: status 200 and the response's url is on the Earthdata Login
\* host: the function returns.
GetAuthRedirect ==
    /\ dpc = "get"
    /\ Requested
    /\ Outcome("auth")
    /\ auth_seen' = TRUE
    /\ dpc' = "returned"
    /\ UNCHANGED <<year, day_of_year, ext, downloaded, body_len,
                   downloaded_size, f_open>>
    /\ UNCHANGED svars

\* Lines 69, 78-81: status 200: the local file is opened with 'wb' (or open()
\* raises, which line 96 catches).
Get200 ==
    /\ dpc = "get"
    /\ Requested
    /\ \/ \E n \in 0..MaxBodyChunks :
            /\ body_len' = n
            /\ downloaded_size' = 0
            /\ f_open' = TRUE
            /\ dpc' = "body"
            /\ UNCHANGED <<ext, gz_outcome>>
       \/ /\ Outcome("exception")
          /\ NextExt
          /\ UNCHANGED <<body_len, downloaded_size, f_open>>
    /\ UNCHANGED <<year, day_of_year, downloaded, auth_seen>>
    /\ UNCHANGED svars

\* Lines 82-85: one chunk of the body is written.
WriteChunk ==
    /\ dpc = "body"
    /\ downloaded_size < body_len
    /\ downloaded_size' = downloaded_size + 1
    /\ UNCHANGED <<dpc, year, day_of_year, ext, downloaded, body_len, f_open,
                   gz_outcome, z_requested, auth_seen, nreq>>
    /\ UNCHANGED svars

\* Lines 81-85, 94-97: iter_content, write or the closing flush raises: the
\* file is closed with what was written, the exception is caught.
BodyRaises ==
    /\ dpc = "body"
    /\ f_open' = FALSE
    /\ Outcome("exception")
    /\ NextExt
    /\ UNCHANGED <<year, day_of_year, downloaded, body_len, downloaded_size,
                   z_requested, auth_seen, nreq>>
    /\ UNCHANGED svars

\* Lines 82-88: iter_content is exhausted, the file is closed, the day is
\* marked and the `for ext` loop is left.
BodyDone ==
    /\ dpc = "body"
    /\ downloaded_size = body_len
    /\ f_open' = FALSE
    /\ downloaded' = TRUE
    /\ Outcome("done")
    /\ dpc' = "day_end"
    /\ UNCHANGED <<year, day_of_year, ext, body_len, downloaded_size,
                   z_requested, auth_seen, nreq>>
    /\ UNCHANGED svars

\* Lines 99-102, then the next day (lines 36, 56-57), the next year (line 32)
\* or the end of the function.
DayEnd ==
    /\ dpc = "day_end"
    /\ IF day_of_year = DaysInYear /\ year = EndYear
       THEN /\ dpc' = "returned"
            /\ UNCHANGED <<year, day_of_year, ext, downloaded, gz_outcome,
                           z_requested>>
       ELSE /\ dpc' = "get"
            /\ year' = IF day_of_year = DaysInYear THEN year + 1 ELSE year
            /\ day_of_year' = IF day_of_year = DaysInYear THEN 1
                              ELSE day_of_year + 1
            /\ ext' = 1
            /\ downloaded' = FALSE
            /\ gz_outcome' = "none"
            /\ z_requested' = FALSE
    /\ UNCHANGED <<body_len, downloaded_size, f_open, auth_seen, nreq>>
    /\ UNCHANGED svars

DlNext ==
    \/ GetRaises
    \/ Get404
    \/ GetOtherStatus
    \/ GetAuthRedirect
    \/ Get200
    \/ WriteChunk
    \/ BodyRaises
    \/ BodyDone
    \/ DayEnd

\* The downloader is a program of its own: the streaming service stands still.
DlInit == Init /\ initLog = << >> /\ live_rinex = Absent

DlSpec == DlInit /\ [][DlNext]_vars

\* ---- the claims ---------------------------------------------------------
InLoop == pc \in {"loop", "recv", "write"}

Range(s) == {s[i] : i \in 1..Len(s)}

\* C1: a reader of the published path (live_rinex) sees, in every reachable
\* state, a complete version (or no file yet), never a partial or torn file.
C1_PublishedNeverTorn == live_rinex.kind # "partial"

\* C2: the capture log is append-only: over every step its content before the
\* step is a prefix of its content after it, so its length never decreases and
\* bytes captured before a connection drop are kept and appended to.
C2_LogAppendOnly == [][IsPrefix(master_log, master_log')]_vars

\* C2, its case: a read error ended an interval that had captured bytes, the
\* service reconnected, and the new session's bytes stand after the old ones.
C2_AppendedAfterDrop ==
    /\ unconverted
    /\ pc = "loop"
    /\ bytes_received > 0
    /\ Len(received) > bytes_received
    /\ master_log = initLog \o received

\* C3: when no write, flush or close of the log has failed and the log file is
\* closed, the log holds what it held at start followed by exactly the bytes
\* recv() returned, in receipt order.
C3_LogIsConcatenation ==
    (~ioFailed /\ ~sbf_file) => master_log = initLog \o received

\* C4: at each cycle boundary the converter is invoked if and only if bytes
\* were captured since the previous cycle boundary, and the tally starts at 0
\* in the next interval (stated for the runs in which storage never failed).
C4_ConvertIffCaptured ==
    [][((pc = "decide" /\ pc' \in {"convert", "connect"} /\ ~ioFailed)
            => ((pc' = "convert") <=> (sinceBoundary > 0)))
       /\ ((pc = "open" /\ pc' = "loop") => bytes_received' = 0)]_vars

\* C5: after a cycle in which the converter exited non-zero, the published
\* artifact is what it was before the cycle and exactly one non-zero-exit
\* failure has been reported.
C5_NonZeroExitLeavesArtifact ==
    ("nonzero" \in Range(cycleOut))
        => (live_rinex = pubBefore /\ cycleOut = <<"nonzero">>)

\* C6: when a read error ends an interval in which bytes were captured, a
\* conversion cycle fires for them before the next capture interval runs.
C6_DropStillConverts == InLoop => ~unconverted

\* C7: a stalled upstream cannot block the scheduler: while main() waits in
\* recv() there is always a step the service takes on its own (the clock of the
\* interval, then a read timeout that ends the wait), whatever the peer does.
C7_StallCannotBlock == (pc = "recv") => ENABLED <<OwnStep>>_vars

\* C8: after a write, flush or close of the log has failed, the service takes
\* no further step but the one that ends the process.
C8_LogWriteFailureIsFatal == [][ioFailed => pc' \in {pc, "done"}]_vars

\* C9: after the converter executable was not found, the service takes no
\* further step but the one that ends the process.
C9_MissingExecutableIsFatal ==
    [][(cycleOut = <<"notfound">>) => pc' \in {pc, "done"}]_vars

\* C10: connection failures and recoverable conversion failures never stop the
\* service: the main loop is left only by the stop signal, every backoff ends
\* at the top of the loop, and there another connection attempt is made.
C10_FailuresNeverStop ==
    /\ [](pc = "done" => stopSignal)
    /\ (pc = "sleep") ~> (pc \in {"connect", "done"})
    /\ (pc = "connect") ~> (pc \in {"open", "sleep", "done"})

\* C10, its case: after two or more consecutive failures the service has made
\* another connection attempt, which succeeded.
C10_AttemptAfterFailures == failRun = 2 /\ pc = "open" /\ ~stopSignal

\* C11: after every connection failure (failed connect or failed read) the
\* backoff of SleepSeconds elapses in full before the next connection attempt:
\* no attempt is made, and the sleep is not left, while some of it is owed.
C11_BackoffBeforeAttempt ==
    [][((pc = "connect" /\ pc' \in {"open", "sleep"}) => owed = 0)
       /\ ((pc = "sleep" /\ pc' = "connect") => owed = 0)]_vars

\* C11, its case: two or more connection attempts in a row failed (nothing
\* was ever received and no storage call failed), the latest backoff has
\* elapsed in full and the sleep is about to return to the next attempt.
C11_BackoffElapsed ==
    /\ failRun = 2
    /\ pc = "sleep"
    /\ owed = 0
    /\ sleep_left = 0
    /\ received = << >>
    /\ ~ioFailed

\* C12: the step in which an interrupt arrives ends the process with exit code
\* 0, the socket and the log file closed, and every byte the file object held
\* on storage.
C12_InterruptShutsDown ==
    [][(~signalled /\ signalled')
          => (pc' = "done" /\ exitCode' = 0 /\ ~sock' /\ ~sbf_file'
              /\ master_log' = master_log \o fbuf)]_vars

\* C13: when the log was empty at start, no storage call failed and the
\* converter succeeds, the artifact published by that cycle is the conversion
\* of a log holding exactly the bytes the upstream sent, in order, and there
\* is at least one such byte.
C13_ArtifactFromExactlyReceived ==
    [][(pc = "convert" /\ pc' = "connect" /\ cycleOut' = <<"success">>
           /\ initLog = << >> /\ ~ioFailed)
          => (live_rinex' = Complete(received) /\ received # << >>)]_vars

\* C13, its case: one session into an empty log, two chunks or more, ended by
\* the upstream closing the connection before the interval expired; the cycle
\* succeeded and the artifact is published.
C13_PublishedAfterEOF ==
    /\ pc = "connect"
    /\ cycleOut = <<"success">>
    /\ initLog = << >>
    /\ pubBefore = Absent
    /\ ~expired
    /\ ~ioFailed
    /\ ~unconverted
    /\ bytes_received = Len(received)
    /\ Len(received) = MaxBytes
    /\ live_rinex = Complete(received)

\* C14: a conversion cycle keeps the upstream session: when the interval ended
\* by expiry (the upstream has not closed), the socket is open while the cycle
\* is decided and while the converter runs.
C14_CycleKeepsSession ==
    (pc \in {"decide", "convert"} /\ ~peerClosed) => sock

\* C15: the steps that handle a connection failure (a failed connect, a read
\* error, the end of the stream and the closing of the session it causes), the
\* backoff and the following connect and open keep the content the log has on
\* storage (as a prefix of the new content) and leave the published artifact
\* as it is.
C15_ConnFailureFrame ==
    [][(\/ pc \in {"connect", "sleep", "open"}
        \/ (pc = "recv" /\ pc' \in {"sleep", "close"})
        \/ (pc = "close" /\ peerClosed))
          => (IsPrefix(master_log, master_log') /\ live_rinex' = live_rinex)]_vars

\* C15, its case: an artifact was published by a successful cycle, a later
\* session captured more bytes and ended in a read error, and the service has
\* backed off, reconnected and reopened the log: the log holds everything
\* received and the artifact is the one published before.
C15_ReconnectedAfterReadError ==
    /\ unconverted
    /\ pc = "loop"
    /\ bytes_received = 0
    /\ cycleOut = <<"success">>
    /\ ~ioFailed
    /\ live_rinex.kind = "complete"
    /\ master_log = initLog \o received
    /\ IsPrefix(live_rinex.src, master_log)
    /\ Len(master_log) > Len(live_rinex.src)

\* C16: capture and conversion never overlap: while the converter child
\* exists, main() stands in the conversion call, the log file is closed with
\* nothing buffered and no chunk pending, the socket is closed, and no step
\* changes the log.
C16_CaptureConversionDisjoint ==
    [][(conv # "idle")
          => (pc = "convert" /\ ~sbf_file /\ ~sock /\ fbuf = << >>
              /\ data = << >> /\ master_log' = master_log)]_vars

\* C16, its case: the converter is writing its output from a log that holds
\* captured bytes, and capture is not running.
C16_ConverterRunsAlone ==
    /\ conv = "writing"
    /\ pc = "convert"
    /\ ~sbf_file
    /\ convInput = master_log
    /\ Len(master_log) > Len(initLog)
    /\ bytes_received > 0

\* C17: the tally of the interval never exceeds the number of bytes of the
\* interval that are on storage: a chunk is counted only once it is flushed.
C17_CountedOnlyWhenDurable == bytes_received <= Len(master_log) - baseLen

\* C18: the input of every conversion is the whole log: everything the log
\* held at start and, when no storage call failed, every byte received since,
\* whatever became of the earlier intervals.
C18_ConvertsWholeLog ==
    (conv \in {"running", "writing"})
        => /\ convInput = master_log
           /\ IsPrefix(initLog, convInput)
           /\ (~ioFailed => convInput = initLog \o received)

\* C18, its case: the converter runs on a log that holds, before the bytes of
\* the latest interval, bytes of an earlier interval that no successful cycle
\* has followed.
C18_EarlierBytesInInput ==
    /\ conv = "running"
    /\ bytes_received > 0
    /\ failRun >= 1
    /\ ~ioFailed
    /\ Len(convInput) > Len(initLog) + bytes_received

\* C19: no interval is silent: a capture interval starts only when the tally
\* and a cycle outcome were reported for the interval before it.
C19_NoSilentInterval ==
    [][(pc = "open" /\ pc' = "loop") => reported]_vars

\* C20: the only step that enters the terminal state is the one in which the
\* stop signal reaches __main__; it ends the process with exit code 0.  No
\* failure and no end of stream leaves the main loop.
C20_ShutdownOnlyOnSignal ==
    [][(pc # "done" /\ pc' = "done")
          => (~stopSignal /\ stopSignal' /\ exitCode' = 0)]_vars

\* C20, its case: the service went through an end of stream, a failed storage
\* call and two or more failures in a row, kept running, and then ended on the
\* stop signal.
C20_StoppedAfterFailures ==
    /\ pc = "done"
    /\ stopSignal
    /\ exitCode = 0
    /\ ioFailed
    /\ peerClosed
    /\ failRun = 2

\* C21: the log's name is the one computed at start, for the whole run: every
\* open() of the log and every conversion input was given that name, whatever
\* the day was by then.
C21_OneLogPerRun ==
    /\ master_sbf_filename = LogName("start")
    /\ \A u \in path_uses : u[1] = master_sbf_filename

\* C21, its case: the day changed before the log was first opened; since then
\* bytes were appended and the converter was started, all on the log named
\* after the starting day.
C21_SameLogAfterMidnight ==
    /\ dayChanged
    /\ conv = "running"
    /\ bytes_received > 0
    /\ convInput = master_log
    /\ path_uses = {<<LogName("start"), "later">>}

\* C22: the converter exists only when the socket and the log file of the
\* interval are closed, and then every byte of the interval's tally is on
\* storage in the log: the log holds, after what it held when the interval
\* opened it, exactly the bytes_received bytes received last.
C22_ConvertAfterClose ==
    (conv # "idle")
        => /\ ~sock
           /\ ~sbf_file
           /\ Len(master_log) = baseLen + bytes_received
           /\ Drop(master_log, baseLen)
                  = Drop(received, Len(received) - bytes_received)

\* C22, its case: the converter is about to start after a second or later
\* interval, which counted two bytes or more; the session is closed.
C22_TallyOnStorageAtStart ==
    /\ conv = "start"
    /\ baseLen > Len(initLog)
    /\ bytes_received >= 2
    /\ sinceBoundary = 0
    /\ ~sock
    /\ ~sbf_file

\* Where main() goes from p when no exception is raised.
NormalSucc(p) ==
    CASE p = "connect" -> {"open"}
      [] p = "open" -> {"loop"}
      [] p = "loop" -> {"recv", "close"}
      [] p = "recv" -> {"write", "close"}
      [] p = "write" -> {"loop"}
      [] p = "close" -> {"decide"}
      [] OTHER -> {}

\* C23: an iteration that ends at the cycle boundary (by expiry or end of
\* stream, with or without bytes, whatever the conversion outcome) goes to the
\* next connection attempt with no sleep pending; an iteration that ends with
\* an exception goes to the full sleep; and the sleep is entered in no other
\* way.
C23_BackoffOnlyOnException ==
    [][((pc \in {"decide", "convert"} /\ pc' \notin {"decide", "convert", "done"})
           => (pc' = "connect" /\ sleep_left' = 0 /\ owed' = 0))
       /\ ((pc \in {"connect", "open", "loop", "recv", "write", "close"}
              /\ pc' \notin (NormalSucc(pc) \cup {pc, "done"}))
           => (pc' = "sleep" /\ sleep_left' = SleepSeconds))
       /\ ((pc # "sleep" /\ pc' = "sleep")
           => (pc \notin {"decide", "convert"} /\ ~sock' /\ ~sbf_file'))]_vars

\* C23, its case: the peer accepted and closed at once, the cycle was skipped,
\* and the service is connected again without ever having slept (no failure
\* was counted, nothing was received).
C23_ReconnectedWithoutDelay ==
    /\ pc = "open"
    /\ sock
    /\ peerClosed
    /\ cycleOut = <<"skip">>
    /\ failRun = 0
    /\ sleep_left = 0
    /\ received = << >>

\* C24: the tally is the number of bytes handed to the log file in the current
\* session: it starts at 0 when the session opens the log, counts what the
\* session wrote, and at the cycle boundary equals the bytes the session
\* added to the log; the cycle converts exactly when it is positive, so bytes
\* of a session that ended with an exception stay unconverted through a later
\* session that captured nothing.
C24_TallyIsPerSession ==
    [][((pc = "open" /\ pc' = "loop") => bytes_received' = 0)
       /\ ((InLoop /\ ~ioFailed)
           => bytes_received = Len(master_log) - baseLen + Len(fbuf))
       /\ ((pc = "decide" /\ pc' \in {"convert", "connect"})
           => (/\ bytes_received = Len(master_log) - baseLen
               /\ (pc' = "convert") <=> (bytes_received > 0)
               /\ (unconverted /\ bytes_received = 0)
                     => (unconverted' /\ pc' = "connect")))]_vars

\* C24, its case: a session captured bytes and ended with a read error, a
\* later session captured nothing and its cycle was skipped: the earlier
\* bytes are in the log and have reached no converter.
C24_EarlierBytesNotCounted ==
    /\ unconverted
    /\ pc = "connect"
    /\ cycleOut = <<"skip">>
    /\ bytes_received = 0
    /\ ~ioFailed
    /\ Len(master_log) > Len(initLog)

\* C25: whatever the outcome of the conversion, the step that ends it takes
\* main() to the next connection attempt with no sleep pending and leaves the
\* session, log, buffer, tally and clock state as they were: what the service
\* does next does not depend on the outcome.
C25_OutcomeHasNoEffect ==
    [][(pc = "convert" /\ pc' \notin {"convert", "done"})
          => (/\ pc' = "connect"
              /\ conv' = "idle"
              /\ convInput' = << >>
              /\ sleep_left' = 0
              /\ UNCHANGED <<sock, sbf_file, fbuf, master_log, data,
                             bytes_received, expired, owed, exitCode>>)]_vars

\* C25, its case: after a conversion that timed out and left the artifact
\* unfinished, the service is connected again with no backoff and is about
\* to append the next chunk.
C25_CapturingAfterTimeout ==
    /\ pc = "write"
    /\ cycleOut = <<"timeout">>
    /\ live_rinex.kind = "partial"
    /\ data # << >>
    /\ sock
    /\ sbf_file
    /\ ~ioFailed
    /\ ~unconverted
    /\ failRun = 1

\* How an attempt ends without a download and without the function returning.
NoDownload == {"404", "http_error", "exception"}

\* C26: for every day the .gz request comes first; the .Z request is made if
\* and only if the .gz attempt ended in a 404, another HTTP error or an
\* exception; the day is marked downloaded only by the step that has written
\* the whole body and closes the file; and once a response was found
\* redirected to the Earthdata Login host the function has returned and no
\* request is made any more.
C26_ExtensionFallback ==
    /\ [](z_requested => gz_outcome \in NoDownload)
    /\ []((gz_outcome \in NoDownload)
             => (z_requested \/ (dpc = "get" /\ possible_extensions[ext] = ".Z")))
    /\ []((dpc = "get" /\ gz_outcome = "none")
             => possible_extensions[ext] = ".gz")
    /\ [](auth_seen => dpc = "returned")
    /\ [][((~downloaded /\ downloaded')
              => (f_open /\ ~f_open' /\ downloaded_size = body_len
                  /\ downloaded_size' = downloaded_size))
          /\ (auth_seen => nreq' = nreq)]_vars

\* C26, its case: on a day after the first, the .gz attempt ended in a 404,
\* the .Z request was made, its body of two chunks or more was written whole
\* and the day is marked.
C26_FallbackDownloaded ==
    /\ dpc = "day_end"
    /\ day_of_year > 1
    /\ gz_outcome = "404"
    /\ z_requested
    /\ possible_extensions[ext] = ".Z"
    /\ downloaded
    /\ ~f_open
    /\ body_len >= 2
    /\ downloaded_size = body_len

====
